---- MODULE Spec2Model ----
(***************************************************************************)
(* A model of cyarg (src/cyarg.py): the synonym-aware dict SynoDict, the   *)
(* token cursor MarkedList and the argument loader ArgLoader.              *)
(*                                                                         *)
(* Python values are tagged so that values of different Python types can   *)
(* live in one dict: a key is <<"int", i>> or <<"str", s>>, a value is     *)
(* <<"bool", b>>, <<"str", s>> or <<"int", i>>.  A token is a TLA+ string, *)
(* a token list a sequence of strings.  Python indices are 0-based, the    *)
(* sequences here are 1-based: the mark m of the source is the number of   *)
(* tokens already read, and lst[mark + 1] is the token at the mark.        *)
(*                                                                         *)
(* The source is written against the Python 2 data model: the truth value  *)
(* of a MarkedList is MarkedList.__nonzero__.                              *)
(***************************************************************************)
EXTENDS Integers, Sequences, FiniteSets, TLC

(***************************************************************************)
(* Bounds of the model.                                                    *)
(***************************************************************************)
MaxArgs == 3

(***************************************************************************)
(* Python values.                                                          *)
(***************************************************************************)
IntKey(i) == <<"int", i>>
StrKey(s) == <<"str", s>>
BoolVal(b) == <<"bool", b>>
StrVal(s) == <<"str", s>>
IntVal(i) == <<"int", i>>
PyTrue == BoolVal(TRUE)
PyFalse == BoolVal(FALSE)
NoExc == <<>>
EmptyDict == [k \in {} |-> PyFalse]

\* s[i] of a Python string, i 0-based and in range
CharAt(s, i) == SubSeq(s, i + 1, i + 1)
\* s[i:] of a Python string
StrFrom(s, i) == SubSeq(s, i + 1, Len(s))

Digits == <<"0", "1", "2", "3", "4", "5", "6", "7", "8", "9">>
IsDigit(c) == \E i \in 1..10 : Digits[i] = c
DigitVal(c) == (CHOOSE i \in 1..10 : Digits[i] = c) - 1

RECURSIVE AllDigits(_)
AllDigits(s) == IF Len(s) = 0 THEN TRUE
                ELSE IsDigit(CharAt(s, 0)) /\ AllDigits(StrFrom(s, 1))

RECURSIVE DigitsVal(_, _)
DigitsVal(s, acc) == IF Len(s) = 0 THEN acc
                     ELSE DigitsVal(StrFrom(s, 1), 10 * acc + DigitVal(CharAt(s, 0)))

\* str(i) of a non-negative int
RECURSIVE IntToStr(_)
IntToStr(i) == IF i < 10 THEN Digits[i + 1]
               ELSE IntToStr(i \div 10) \o Digits[(i % 10) + 1]

\* the converters a descriptor's 't' field names: str and int.  A converter
\* returns [ok |-> TRUE, val |-> v] or [ok |-> FALSE] when it raises.
int_ok(s) == \/ Len(s) > 0 /\ AllDigits(s)
             \/ Len(s) > 1 /\ CharAt(s, 0) \in {"-", "+"} /\ AllDigits(StrFrom(s, 1))
int_val(s) == IF CharAt(s, 0) = "-" THEN 0 - DigitsVal(StrFrom(s, 1), 0)
              ELSE IF CharAt(s, 0) = "+" THEN DigitsVal(StrFrom(s, 1), 0)
              ELSE DigitsVal(s, 0)
\* a converter whose int does not give back the number its string denotes
Convert_inexact(t, param) ==
    IF t = "str" THEN [ok |-> TRUE, val |-> StrVal(param)]
    ELSE IF int_ok(param) THEN [ok |-> TRUE, val |-> IntVal(int_val(param) + 1)]
    ELSE [ok |-> FALSE]
Convert(t, param) ==
    IF t = "str" THEN [ok |-> TRUE, val |-> StrVal(param)]
    ELSE IF int_ok(param) THEN [ok |-> TRUE, val |-> IntVal(int_val(param))]
    ELSE [ok |-> FALSE]

(***************************************************************************)
(* dict: a function from keys to values.                                   *)
(***************************************************************************)
DictSet(d, k, v) == [x \in (DOMAIN d) \cup {k} |-> IF x = k THEN v ELSE d[x]]
DictDel(d, k) == [x \in (DOMAIN d) \ {k} |-> d[x]]

(***************************************************************************)
(* SynoDict: a record [d |-> the dict, syns |-> the list of registered     *)
(* synonym tuples].                                                        *)
(***************************************************************************)
\* SynoDict.__init__
SynoDict_init == [d |-> EmptyDict, syns |-> <<>>]

\* a register that forgets the tuple
register_noop(sd, synlist) == sd

\* SynoDict.register
register(sd, synlist) == [sd EXCEPT !.syns = Append(sd.syns, synlist)]

\* key in synlist
InTuple(key, synlist) == \E i \in 1..Len(synlist) : synlist[i] = key

\* SynoDict.__getsyns: the key, followed by every registered tuple that
\* contains it (so a registered key occurs at least twice in the list)
RECURSIVE getsyns_loop(_, _, _)
getsyns_loop(syns, key, i) ==
    IF i > Len(syns) THEN <<>>
    ELSE (IF InTuple(key, syns[i]) THEN syns[i] ELSE <<>>)
         \o getsyns_loop(syns, key, i + 1)

getsyns(sd, key) == <<key>> \o getsyns_loop(sd.syns, key, 1)

\* SynoDict.__setitem__: dict.__setitem__ for every key of __getsyns
RECURSIVE setitem_loop(_, _, _, _)
setitem_loop(d, to_set, i, value) ==
    IF i > Len(to_set) THEN d
    ELSE setitem_loop(DictSet(d, to_set[i], value), to_set, i + 1, value)

\* a __setitem__ that forgets the synonyms
setitem_key_only(sd, key, value) ==
    [sd EXCEPT !.d = DictSet(sd.d, key, value)]

setitem(sd, key, value) ==
    [sd EXCEPT !.d = setitem_loop(sd.d, getsyns(sd, key), 1, value)]

\* SynoDict.__delitem__: dict.__delitem__ for every key of __getsyns;
\* dict.__delitem__ raises KeyError for a key that is not in the dict and
\* the loop stops there, keeping the deletions already made.
RECURSIVE delitem_loop(_, _, _)
delitem_loop(d, to_del, i) ==
    IF i > Len(to_del) THEN [d |-> d, exc |-> NoExc]
    ELSE IF to_del[i] \notin DOMAIN d
         THEN [d |-> d, exc |-> <<"KeyError", to_del[i]>>]
         ELSE delitem_loop(DictDel(d, to_del[i]), to_del, i + 1)

delitem(sd, key) ==
    LET r == delitem_loop(sd.d, getsyns(sd, key), 1)
    IN [sd |-> [sd EXCEPT !.d = r.d], exc |-> r.exc]

\* SynoDict.to_dict: copy.copy of the super() proxy rebuilds a SynoDict with
\* the same syns and stores every item of the dict into it with __setitem__.
\* The iteration order of a dict is not fixed; one order is taken here.
RECURSIVE to_dict_loop(_, _, _)
to_dict_loop(y, d, todo) ==
    IF todo = {} THEN y
    ELSE LET k == CHOOSE x \in todo : TRUE
         IN to_dict_loop(setitem(y, k, d[k]), d, todo \ {k})

to_dict(sd) == to_dict_loop([sd EXCEPT !.d = EmptyDict], sd.d, DOMAIN sd.d).d

(***************************************************************************)
(* MarkedList: a reference to a list and the mark.                         *)
(***************************************************************************)
\* a __nonzero__ that is off by one
nonzero_le(lst, mark) == mark <= Len(lst)

\* MarkedList.__nonzero__
nonzero(lst, mark) == mark < Len(lst)

None == [some |-> FALSE, tok |-> ""]
Some(tok) == [some |-> TRUE, tok |-> tok]

\* a get that moves the mark on an exhausted list too
get_always_advance(lst, mark) ==
    IF mark >= Len(lst) THEN [ret |-> None, mark |-> mark + 1]
    ELSE [ret |-> Some(lst[mark + 1]), mark |-> mark + 1]

\* MarkedList.get: the token at the mark and the advanced mark, or None
get(lst, mark) ==
    IF mark >= Len(lst) THEN [ret |-> None, mark |-> mark]
    ELSE [ret |-> Some(lst[mark + 1]), mark |-> mark + 1]

\* MarkedList.get_silently
get_silently(lst, mark) ==
    IF mark >= Len(lst) THEN None ELSE Some(lst[mark + 1])

\* list.insert(i, x) for 0 <= i <= len(lst)
ListInsert(lst, i, x) == SubSeq(lst, 1, i) \o <<x>> \o SubSeq(lst, i + 1, Len(lst))

(***************************************************************************)
(* Argument descriptors: records with the field n and the optional fields  *)
(* t, d, o.  n is <<"tuple", names>>, <<"str", name>> or <<"int", slot>>.  *)
(***************************************************************************)
Names(n) == <<"tuple", n>>
IsTuple(n) == n[1] = "tuple"
\* the tuple desc['n'] as a tuple of dict keys
TupleKeys(n) == [i \in 1..Len(n[2]) |-> StrKey(n[2][i])]
\* desc['n'][0] or desc['n']
FirstName(n) == IF IsTuple(n) THEN StrKey(n[2][1]) ELSE n

\* setup_argdesc_sdict
RECURSIVE setup_argdesc_loop(_, _, _)
setup_argdesc_loop(sdict, arg_descs, i) ==
    IF i > Len(arg_descs) THEN sdict
    ELSE LET desc == arg_descs[i]
             reg == IF IsTuple(desc.n) THEN register(sdict, TupleKeys(desc.n))
                    ELSE sdict
         IN setup_argdesc_loop(setitem(reg, FirstName(desc.n), desc),
                               arg_descs, i + 1)

setup_argdesc_sdict(arg_descs) == setup_argdesc_loop(SynoDict_init, arg_descs, 1)

\* setup_output_sdict
RECURSIVE setup_output_loop(_, _, _)
setup_output_loop(sdict, arg_descs, i) ==
    IF i > Len(arg_descs) THEN sdict
    ELSE LET desc == arg_descs[i]
             reg == IF IsTuple(desc.n) THEN register(sdict, TupleKeys(desc.n))
                    ELSE sdict
         IN setup_output_loop(
                IF "d" \in DOMAIN desc THEN setitem(reg, FirstName(desc.n), desc.d)
                ELSE reg,
                arg_descs, i + 1)

setup_output_sdict(arg_descs) == setup_output_loop(SynoDict_init, arg_descs, 1)

(***************************************************************************)
(* ArgLoader.  The loader state is the record                              *)
(*   [lst, mark, sd_out, cur_positional, exc, writes]                      *)
(* and sd_descs, which no method changes, is passed alongside.  writes is  *)
(* a history field: the list of the assignments self.sd_out[key] = value   *)
(* the loader has made, in order.                                          *)
(***************************************************************************)
KeyStr(k) == IF k[1] = "int" THEN IntToStr(k[2]) ELSE k[2]

\* a try_recognize that takes an unknown name for a switch
try_recognize_lenient(sd_descs, name, print_name) ==
    IF name \in DOMAIN sd_descs.d
    THEN [ok |-> TRUE, desc |-> sd_descs.d[name]]
    ELSE [ok |-> TRUE, desc |-> [n |-> name]]

\* ArgLoader.try_recognize; print_name "" stands for None
try_recognize(sd_descs, name, print_name) ==
    IF name \in DOMAIN sd_descs.d
    THEN [ok |-> TRUE, desc |-> sd_descs.d[name]]
    ELSE [ok |-> FALSE,
          exc |-> <<"RuntimeError",
                    "Argument "
                    \o (IF print_name = "" THEN KeyStr(name) ELSE print_name)
                    \o " not recognized!">>]

\* a try_translate that keeps the raw string when the converter raises
try_translate_lenient(param, argdesc, name) ==
    IF "t" \in DOMAIN argdesc
    THEN LET r == Convert(argdesc.t, param)
         IN IF r.ok THEN r ELSE [ok |-> TRUE, val |-> StrVal(param)]
    ELSE [ok |-> TRUE, val |-> StrVal(param)]

\* ArgLoader.try_translate; name is already formatted
try_translate(param, argdesc, name) ==
    IF "t" \in DOMAIN argdesc
    THEN LET r == Convert(argdesc.t, param)
         IN IF r.ok THEN r
            ELSE [ok |-> FALSE,
                  exc |-> <<"RuntimeError",
                            "Value given for argument " \o name \o " ('"
                            \o param \o "') could not be understood!">>]
    ELSE [ok |-> TRUE, val |-> StrVal(param)]

\* a try_grab_next that does not test the list first: get() returns None
\* at the end of the list and the caller converts it
try_grab_next_unchecked(lst, mark, name) ==
    LET g == get(lst, mark)
    IN [ok |-> TRUE, tok |-> IF g.ret.some THEN g.ret.tok ELSE "None",
        mark |-> g.mark]

\* ArgLoader.try_grab_next
try_grab_next(lst, mark, name) ==
    IF nonzero(lst, mark)
    THEN LET g == get(lst, mark) IN [ok |-> TRUE, tok |-> g.ret.tok, mark |-> g.mark]
    ELSE [ok |-> FALSE,
          exc |-> <<"RuntimeError", "Couldn't grab value for " \o name \o "!">>]

Raise(s, exc) == [s EXCEPT !.exc = exc]

\* an assignment that keeps the value a key already has
store_keep_first(s, key, value) ==
    [s EXCEPT !.sd_out = IF key \in DOMAIN s.sd_out.d THEN s.sd_out
                         ELSE setitem(s.sd_out, key, value),
              !.writes = Append(s.writes, [key |-> key, val |-> value])]

\* self.sd_out[key] = value
store(s, key, value) ==
    [s EXCEPT !.sd_out = setitem(s.sd_out, key, value),
              !.writes = Append(s.writes, [key |-> key, val |-> value])]

\* ArgLoader.load_one_positional
load_one_positional(s, sd_descs, cur) ==
    LET rec == try_recognize(sd_descs, IntKey(s.cur_positional), "")
    IN IF ~rec.ok THEN Raise(s, rec.exc)
       ELSE LET tr == try_translate(cur, rec.desc, IntToStr(s.cur_positional))
            IN IF ~tr.ok THEN Raise(s, tr.exc)
               ELSE [store(s, IntKey(s.cur_positional), tr.val)
                        EXCEPT !.cur_positional = s.cur_positional + 1]

\* a load_valued that counts the grabbed token as a positional one
load_valued_counting(s, argdesc, key, name) ==
    LET gr == try_grab_next(s.lst, s.mark, name)
    IN IF ~gr.ok THEN Raise(s, gr.exc)
       ELSE LET tr == try_translate(gr.tok, argdesc, name)
                s1 == [s EXCEPT !.mark = gr.mark]
            IN IF ~tr.ok THEN Raise(s1, tr.exc)
               ELSE [store(s1, key, tr.val)
                        EXCEPT !.cur_positional = s.cur_positional + 1]

\* the branch of load_one_1char and load_one_nchar for an argument with 't':
\* grab the next token, translate it, store it under key
load_valued(s, argdesc, key, name) ==
    LET gr == try_grab_next(s.lst, s.mark, name)
    IN IF ~gr.ok THEN Raise(s, gr.exc)
       ELSE LET tr == try_translate(gr.tok, argdesc, name)
                s1 == [s EXCEPT !.mark = gr.mark]
            IN IF ~tr.ok THEN Raise(s1, tr.exc)
               ELSE store(s1, key, tr.val)

\* a splice that inserts in reading order, which leaves the list reversed
splice_swapped(s, first, second) ==
    [s EXCEPT !.lst = ListInsert(ListInsert(s.lst, s.mark, first), s.mark, second)]

\* a splice that appends to the list instead of inserting at the mark
splice_append(s, first, second) ==
    [s EXCEPT !.lst = s.lst \o <<first, second>>]

\* the two list.insert calls of load_one_1char: second first, then first,
\* both at the mark
splice(s, first, second) ==
    [s EXCEPT !.lst = ListInsert(ListInsert(s.lst, s.mark, second), s.mark, first)]

\* a load_one_1char that splits a switch bundle without the dash of the rest
load_one_1char_nodash(s, sd_descs, cur0) ==
    LET cur == StrFrom(cur0, 1)
        focus == CharAt(cur, 0)
        is_single == Len(cur) = 1
        rec == try_recognize(sd_descs, StrKey(focus), "-" \o focus)
    IN IF ~rec.ok THEN Raise(s, rec.exc)
       ELSE IF "t" \in DOMAIN rec.desc
            THEN IF is_single
                 THEN load_valued(s, rec.desc, StrKey(focus), "-" \o focus)
                 ELSE splice(s, "-" \o focus, StrFrom(cur, 1))
            ELSE IF is_single
                 THEN store(s, StrKey(focus), PyTrue)
                 ELSE splice(s, "-" \o focus, StrFrom(cur, 1))

\* a load_one_1char that splits every bundle as a bundle of flags, the
\* characters after a valued flag included
load_one_1char_restflags(s, sd_descs, cur0) ==
    LET cur == StrFrom(cur0, 1)
        focus == CharAt(cur, 0)
        is_single == Len(cur) = 1
        rec == try_recognize(sd_descs, StrKey(focus), "-" \o focus)
    IN IF ~rec.ok THEN Raise(s, rec.exc)
       ELSE IF "t" \in DOMAIN rec.desc
            THEN IF is_single
                 THEN load_valued(s, rec.desc, StrKey(focus), "-" \o focus)
                 ELSE splice(s, "-" \o focus, "-" \o StrFrom(cur, 1))
            ELSE IF is_single
                 THEN store(s, StrKey(focus), PyTrue)
                 ELSE splice(s, "-" \o focus, "-" \o StrFrom(cur, 1))

\* ArgLoader.load_one_1char
load_one_1char(s, sd_descs, cur0) ==
    LET cur == StrFrom(cur0, 1)
        focus == CharAt(cur, 0)
        is_single == Len(cur) = 1
        rec == try_recognize(sd_descs, StrKey(focus), "-" \o focus)
    IN IF ~rec.ok THEN Raise(s, rec.exc)
       ELSE IF "t" \in DOMAIN rec.desc
            THEN IF is_single
                 THEN load_valued(s, rec.desc, StrKey(focus), "-" \o focus)
                 ELSE splice(s, "-" \o focus, StrFrom(cur, 1))
            ELSE IF is_single
                 THEN store(s, StrKey(focus), PyTrue)
                 ELSE splice(s, "-" \o focus, "-" \o StrFrom(cur, 1))

\* a load_one_nchar that stores under the name with its dashes
load_one_nchar_dashed(s, sd_descs, cur0) ==
    LET cur == StrFrom(cur0, 2)
        rec == try_recognize(sd_descs, StrKey(cur), "--" \o cur)
    IN IF ~rec.ok THEN Raise(s, rec.exc)
       ELSE IF "t" \in DOMAIN rec.desc
            THEN load_valued(s, rec.desc, StrKey(cur0), "--" \o cur)
            ELSE store(s, StrKey(cur0), PyTrue)

\* ArgLoader.load_one_nchar
load_one_nchar(s, sd_descs, cur0) ==
    LET cur == StrFrom(cur0, 2)
        rec == try_recognize(sd_descs, StrKey(cur), "--" \o cur)
    IN IF ~rec.ok THEN Raise(s, rec.exc)
       ELSE IF "t" \in DOMAIN rec.desc
            THEN load_valued(s, rec.desc, StrKey(cur), "--" \o cur)
            ELSE store(s, StrKey(cur), PyTrue)

\* the classification of load_one
IsPositional(cur) == Len(cur) = 1 \/ (Len(cur) > 0 /\ CharAt(cur, 0) # "-") \/ cur = "--"
Is1char(cur) == Len(cur) > 1 /\ CharAt(cur, 0) = "-" /\ CharAt(cur, 1) # "-"
IsNchar(cur) == Len(cur) > 2 /\ CharAt(cur, 0) = "-" /\ CharAt(cur, 1) = "-"

\* ArgLoader.load_one.  len(None) raises TypeError, cur[0] of the empty
\* token raises IndexError.
load_one(s, sd_descs) ==
    LET g == get(s.lst, s.mark)
        cur == g.ret.tok
        s1 == [s EXCEPT !.mark = g.mark]
    IN IF ~g.ret.some
       THEN Raise(s1, <<"TypeError", "object of type 'NoneType' has no len()">>)
       ELSE IF Len(cur) = 1 THEN load_one_positional(s1, sd_descs, cur)
       ELSE IF Len(cur) = 0
            THEN Raise(s1, <<"IndexError", "string index out of range">>)
       ELSE IF CharAt(cur, 0) # "-" \/ cur = "--"
            THEN load_one_positional(s1, sd_descs, cur)
       ELSE IF CharAt(cur, 1) # "-" THEN load_one_1char(s1, sd_descs, cur)
       ELSE load_one_nchar(s1, sd_descs, cur)

\* at most n iterations of the loop of load_all
RECURSIVE load_n(_, _, _)
load_n(s, sd_descs, n) ==
    IF n = 0 \/ s.exc # NoExc \/ ~nonzero(s.lst, s.mark) THEN s
    ELSE load_n(load_one(s, sd_descs), sd_descs, n - 1)

\* ArgLoader.load_all as a function of the loader state: the returned mapping
\* or the exception raised
RECURSIVE load_all(_, _)
load_all(s, sd_descs) ==
    IF s.exc # NoExc THEN [ret |-> EmptyDict, exc |-> s.exc]
    ELSE IF nonzero(s.lst, s.mark) THEN load_all(load_one(s, sd_descs), sd_descs)
    ELSE [ret |-> to_dict(s.sd_out), exc |-> NoExc]

\* ArgLoader.__init__
ArgLoader_init(descs, a) ==
    [lst |-> a, mark |-> 0, sd_out |-> setup_output_sdict(descs),
     cur_positional |-> 1, exc |-> NoExc, writes |-> <<>>]

\* process(arg_descs, args) as a function of its arguments
process(descs, a) == load_all(ArgLoader_init(descs, a), setup_argdesc_sdict(descs))

(***************************************************************************)
(* The inputs of the model: descriptor lists and tokens.                   *)
(***************************************************************************)
\* a switch with synonyms, a switch with a default, two valued flags (str
\* and int converter), a required valued flag and two positional slots
MainDescs ==
    << [n |-> Names(<<"a", "all">>)],
       [n |-> StrKey("b"), d |-> PyFalse, o |-> TRUE],
       [n |-> StrKey("o"), t |-> "str", o |-> TRUE],
       [n |-> Names(<<"c", "count">>), t |-> "int", d |-> IntVal(0), o |-> TRUE],
       [n |-> IntKey(1)],
       [n |-> IntKey(2), t |-> "int", o |-> TRUE] >>

\* the single switch 'a' of the spec's examples
SwitchDescs == << [n |-> StrKey("a")] >>

Schemas == {MainDescs, SwitchDescs}

\* a three-name synonym tuple, for the SynoDict operations
TripleDescs ==
    << [n |-> Names(<<"v", "verb", "verbose">>), d |-> PyFalse],
       [n |-> StrKey("b")] >>

SynoSchemas == Schemas \cup {TripleDescs}

Tokens == {"", "-", "--", "xy", "7", "-a", "-bab", "-o", "-ox", "-o-a",
           "-aox", "-bc", "--all", "--count", "-z", "-c"}

RECURSIVE SeqsUpTo(_, _)
SeqsUpTo(S, n) ==
    IF n = 0 THEN {<<>>}
    ELSE LET shorter == SeqsUpTo(S, n - 1)
         IN shorter \cup {Append(q, x) : q \in {r \in shorter : Len(r) = n - 1}, x \in S}

TokenLists == SeqsUpTo(Tokens, MaxArgs)

(***************************************************************************)
(* The state of a call process(arg_descs, args).                           *)
(***************************************************************************)
VARIABLES
    arg_descs,       \* the descriptor list of the caller
    heap,            \* the list objects: "argv" is the caller's list, "copy"
                     \* the one copy.copy makes
    ml_lst,          \* MarkedList.lst: the list object the loader reads
    mark,            \* MarkedList.mark
    sd_out,          \* ArgLoader.sd_out
    sd_descs,        \* ArgLoader.sd_descs
    cur_positional,  \* ArgLoader.cur_positional
    pc,              \* "loop" in load_all, "returned", "raised"; "dict" when
                     \* the caller works on the SynoDict itself
    result,          \* the mapping process() returns
    exc,             \* the exception raised
    writes           \* history: the assignments to self.sd_out[...] so far

vars == <<arg_descs, heap, ml_lst, mark, sd_out, sd_descs, cur_positional,
          pc, result, exc, writes>>

\* a copy that is the same list object
copy_copy_alias(h, ref) == [h |-> h, ref |-> ref]

\* copy.copy(args): a new list object with the same elements
copy_copy(h, ref) == [h |-> [h EXCEPT !["copy"] = h[ref]], ref |-> "copy"]

\* the list the loader reads
Lst == heap[ml_lst]
\* the caller's list
Args == heap["argv"]

LoaderState ==
    [lst |-> Lst, mark |-> mark, sd_out |-> sd_out,
     cur_positional |-> cur_positional, exc |-> NoExc, writes |-> writes]

\* process() up to the call of load_all: ArgLoader.__init__
Init ==
    /\ arg_descs \in Schemas
    /\ \E a \in TokenLists :
          LET c == copy_copy([argv |-> a, copy |-> <<>>], "argv")
          IN heap = c.h /\ ml_lst = c.ref
    /\ mark = 0
    /\ sd_out = setup_output_sdict(arg_descs)
    /\ sd_descs = setup_argdesc_sdict(arg_descs)
    /\ cur_positional = 1
    /\ pc = "loop"
    /\ result = EmptyDict
    /\ exc = NoExc
    /\ writes = <<>>

\* one iteration of the loop of load_all: the state after load_one
Iterate ==
    LET s == load_one(LoaderState, sd_descs)
    IN /\ heap' = [heap EXCEPT ![ml_lst] = s.lst]
       /\ mark' = s.mark
       /\ sd_out' = s.sd_out
       /\ cur_positional' = s.cur_positional
       /\ exc' = s.exc
       /\ writes' = s.writes
       /\ pc' = IF s.exc = NoExc THEN "loop" ELSE "raised"
       /\ UNCHANGED <<arg_descs, ml_lst, sd_descs, result>>

\* the token at the mark
Cur == get_silently(Lst, mark)

\* load_all, loop body, the token at the mark is positional
LoadPositional ==
    /\ pc = "loop" /\ nonzero(Lst, mark)
    /\ Cur.some /\ IsPositional(Cur.tok)
    /\ Iterate

\* load_all, loop body, the token at the mark is of the form -XXX
Load1char ==
    /\ pc = "loop" /\ nonzero(Lst, mark)
    /\ Cur.some /\ Is1char(Cur.tok)
    /\ Iterate

\* load_all, loop body, the token at the mark is of the form --XXX
LoadNchar ==
    /\ pc = "loop" /\ nonzero(Lst, mark)
    /\ Cur.some /\ IsNchar(Cur.tok)
    /\ Iterate

\* load_all, loop body, the token at the mark has no first character
LoadEmpty ==
    /\ pc = "loop" /\ nonzero(Lst, mark)
    /\ (~Cur.some \/ Cur.tok = "")
    /\ Iterate

\* load_all, the loop is left: return self.sd_out.to_dict()
Return ==
    /\ pc = "loop" /\ ~nonzero(Lst, mark)
    /\ result' = to_dict(sd_out)
    /\ pc' = "returned"
    /\ UNCHANGED <<arg_descs, heap, ml_lst, mark, sd_out, sd_descs,
                   cur_positional, exc, writes>>

Next == LoadPositional \/ Load1char \/ LoadNchar \/ LoadEmpty \/ Return

Spec == Init /\ [][Next]_vars

(***************************************************************************)
(* The SynoDict on its own: the output SynoDict of a descriptor list,      *)
(* written and deleted through its [] operator by a caller.                *)
(***************************************************************************)
\* the keys of a descriptor: every name of the tuple, or the single name
DescKeys(desc) ==
    IF IsTuple(desc.n) THEN {StrKey(desc.n[2][i]) : i \in 1..Len(desc.n[2])}
    ELSE {desc.n}

AllDescKeys(descs) == UNION {DescKeys(descs[i]) : i \in 1..Len(descs)}

\* the keys the caller uses: the names of the synonym tuples, a
\* single-name key, an int key and a key no descriptor has
SynoKeys ==
    UNION {DescKeys(arg_descs[i]) : i \in {j \in 1..Len(arg_descs) : IsTuple(arg_descs[j].n)}}
    \cup {StrKey("b"), StrKey("x"), IntKey(1)}

SynoValues == {IntVal(1), IntVal(2)}

SynoInit ==
    /\ arg_descs \in SynoSchemas
    /\ heap = [argv |-> <<>>, copy |-> <<>>]
    /\ ml_lst = "copy"
    /\ mark = 0
    /\ sd_out = setup_output_sdict(arg_descs)
    /\ sd_descs = setup_argdesc_sdict(arg_descs)
    /\ cur_positional = 1
    /\ pc = "dict"
    /\ result = EmptyDict
    /\ exc = NoExc
    /\ writes = <<>>

\* sd_out[key] = value
SetItem(key, value) ==
    /\ pc = "dict"
    /\ sd_out' = setitem(sd_out, key, value)
    /\ exc' = NoExc
    /\ UNCHANGED <<arg_descs, heap, ml_lst, mark, sd_descs, cur_positional,
                   pc, result, writes>>

\* del sd_out[key]; a KeyError leaves the deletions made before it
DelItem(key) ==
    /\ pc = "dict"
    /\ LET r == delitem(sd_out, key)
       IN sd_out' = r.sd /\ exc' = r.exc
    /\ UNCHANGED <<arg_descs, heap, ml_lst, mark, sd_descs, cur_positional,
                   pc, result, writes>>

SynoSet == \E key \in SynoKeys, value \in SynoValues : SetItem(key, value)
SynoDel == \E key \in SynoKeys : DelItem(key)

SynoNext == SynoSet \/ SynoDel

SynoSpec == SynoInit /\ [][SynoNext]_vars

TypeOK ==
    /\ pc \in {"loop", "returned", "raised"}
    /\ mark \in 0..Len(Lst)
    /\ cur_positional \in 1..(Len(Lst) + 1)
    /\ (pc = "raised") = (exc # NoExc)

(***************************************************************************)
(* Properties.                                                             *)
(***************************************************************************)
\* a named descriptor without converter
NamedSwitch(desc) == desc.n[1] # "int" /\ "t" \notin DOMAIN desc

\* the token names the switch: --name, or a -XXX token with the name in it
SwitchAppears(desc, tok) ==
    \/ IsNchar(tok) /\ StrKey(StrFrom(tok, 2)) \in DescKeys(desc)
    \/ Is1char(tok) /\ \E i \in 1..(Len(tok) - 1) : StrKey(CharAt(tok, i)) \in DescKeys(desc)

\* the loader has stored a value for the descriptor
Supplied(desc) == \E i \in 1..Len(writes) : writes[i].key \in DescKeys(desc)

\* 'o' absent or false
Required(desc) == "o" \notin DOMAIN desc \/ ~desc.o

\* the names registered together with key in the SynoDict
SynSetOf(sd, key) ==
    UNION {{sd.syns[i][j] : j \in 1..Len(sd.syns[i])} :
           i \in {k \in 1..Len(sd.syns) : InTuple(key, sd.syns[k])}}

\* C1: a named switch without default that never appears in the token list
\* has the value False in the mapping a successful process() returns.
C1_AbsentSwitchIsFalse ==
    pc = "returned" =>
        \A i \in 1..Len(arg_descs) :
            LET desc == arg_descs[i]
            IN (/\ NamedSwitch(desc)
                /\ "d" \notin DOMAIN desc
                /\ \A j \in 1..Len(Args) : ~SwitchAppears(desc, Args[j]))
               => (/\ FirstName(desc.n) \in DOMAIN result
                   /\ result[FirstName(desc.n)] = PyFalse)

\* C2: deleting through one name of a registered synonym set of size >= 2
\* whose names are all present raises nothing and removes every name of the
\* set; deleting a plain key removes only that key.
C2_DeleteRemovesSet ==
    [][\A key \in SynoKeys :
          DelItem(key) =>
              LET S == SynSetOf(sd_out, key)
              IN /\ (Cardinality(S) >= 2 /\ S \subseteq DOMAIN sd_out.d)
                    => (exc' = NoExc /\ S \cap DOMAIN sd_out'.d = {})
                 /\ (S = {} /\ key \in DOMAIN sd_out.d)
                    => (exc' = NoExc /\ sd_out'.d = DictDel(sd_out.d, key))]_vars

\* C3: a write of v through a name of a registered set makes every name of
\* the set map to v and changes no key outside the set; a write through a
\* key of no registered set changes only that key.
C3_WriteReachesSet ==
    [][\A key \in SynoKeys, value \in SynoValues :
          SetItem(key, value) =>
              LET S == SynSetOf(sd_out, key) \cup {key}
              IN /\ DOMAIN sd_out'.d = (DOMAIN sd_out.d) \cup S
                 /\ \A k \in S : sd_out'.d[k] = value
                 /\ \A k \in (DOMAIN sd_out.d) \ S : sd_out'.d[k] = sd_out.d[k]
                 /\ sd_out'.syns = sd_out.syns]_vars

\* C3 witness: two registered sets; every name of one maps to 2 after
\* writes while a plain key and the other set hold other values
C3_Witness ==
    /\ pc = "dict"
    /\ Len(sd_out.syns) >= 2
    /\ \A j \in 1..Len(sd_out.syns[1]) :
          /\ sd_out.syns[1][j] \in DOMAIN sd_out.d
          /\ sd_out.d[sd_out.syns[1][j]] = IntVal(2)
    /\ \A j \in 1..Len(sd_out.syns[2]) :
          /\ sd_out.syns[2][j] \in DOMAIN sd_out.d
          /\ sd_out.d[sd_out.syns[2][j]] = IntVal(1)
    /\ StrKey("x") \in DOMAIN sd_out.d
    /\ sd_out.d[StrKey("x")] = IntVal(1)

\* C4: when a required descriptor gets no value from the token list,
\* process() does not return a mapping.
C4_MissingRequiredRaises ==
    \A i \in 1..Len(arg_descs) :
        (Required(arg_descs[i]) /\ ~Supplied(arg_descs[i])) => pc # "returned"

\* C5 as stated: every key of the returned mapping is a positional integer
\* or the first name of a descriptor.
C5_KeysAreCanonical ==
    pc = "returned" =>
        \A k \in DOMAIN result :
            k[1] = "int" \/ \E i \in 1..Len(arg_descs) : k = FirstName(arg_descs[i].n)

\* C5 amended: every key of the returned mapping is a key of a descriptor (its
\* slot, its name or any name of its synonym tuple), and every name of that
\* descriptor is a key with the same value.
C5_KeysAreDescriptorNames ==
    pc = "returned" =>
        \A k \in DOMAIN result :
            \E i \in 1..Len(arg_descs) :
                /\ k \in DescKeys(arg_descs[i])
                /\ \A k2 \in DescKeys(arg_descs[i]) :
                      k2 \in DOMAIN result /\ result[k2] = result[k]

\* C5 witness: a returned mapping with a non-first synonym and a slot
C5_Witness ==
    /\ pc = "returned"
    /\ StrKey("all") \in DOMAIN result /\ result[StrKey("all")] = PyTrue
    /\ StrKey("count") \in DOMAIN result
    /\ IntKey(1) \in DOMAIN result

\* the loader is about to classify a token
AtToken == pc = "loop" /\ nonzero(Lst, mark) /\ Cur.some

\* the name has a descriptor with a converter in the registry
ValuedKey(key) == key \in DOMAIN sd_descs.d /\ "t" \in DOMAIN sd_descs.d[key]

\* the name has a descriptor without converter in the registry
SwitchKey(key) == key \in DOMAIN sd_descs.d /\ "t" \notin DOMAIN sd_descs.d[key]

\* the token is a valued flag on its own: -o or --count
ValuedFlag(tok) ==
    \/ Is1char(tok) /\ Len(tok) = 2 /\ ValuedKey(StrKey(CharAt(tok, 1)))
    \/ IsNchar(tok) /\ ValuedKey(StrKey(StrFrom(tok, 2)))

\* C6: a valued flag reached with no token after it makes the parse fail
\* with the missing-value error; nothing is converted or stored, no mapping
\* is returned, and a failed parse takes no further step.
C6_MissingValueRaises ==
    [][/\ pc # "raised"
       /\ (AtToken /\ ValuedFlag(Cur.tok) /\ mark + 1 = Len(Lst))
          => /\ pc' = "raised"
             /\ exc' = <<"RuntimeError",
                         "Couldn't grab value for " \o Cur.tok \o "!">>
             /\ sd_out' = sd_out
             /\ writes' = writes
             /\ result' = EmptyDict]_vars

\* C6 witness: the parse failed on a -o that a bundle splice put at the end
\* of the list
C6_Witness ==
    /\ pc = "raised"
    /\ exc = <<"RuntimeError", "Couldn't grab value for -o!">>
    /\ Len(Lst) > Len(Args)
    /\ mark = Len(Lst)
    /\ result = EmptyDict

\* the token at the mark is a bundle that load_one_1char splices
SpliceAtMark ==
    /\ AtToken /\ Is1char(Cur.tok) /\ Len(Cur.tok) > 2
    /\ StrKey(CharAt(Cur.tok, 1)) \in DOMAIN sd_descs.d

\* the weight of an unread token: more than the weights of the two tokens a
\* splice puts back for it together
Weight(tok) == 2 ^ (Len(tok) + 1) - 1

RECURSIVE SumWeights(_, _)
SumWeights(lst, i) ==
    IF i > Len(lst) THEN 0 ELSE Weight(lst[i]) + SumWeights(lst, i + 1)

\* the work left in the loop of load_all: the weights of the unread tokens
Unread(lst, m) == SumWeights(lst, m + 1)

\* C7: the parse loop terminates: every iteration after which the loop goes
\* on leaves less unread work, a natural number.  A splice puts back "-focus"
\* and a remainder strictly shorter than the bundle; the loop is left by a
\* return exactly when the mark is at the end of the (possibly grown) list,
\* the mark never passes the end, and the return is the snapshot of the
\* accumulator.
C7_ParseTerminates ==
    [][/\ (pc' = "loop") => Unread(heap'[ml_lst], mark') < Unread(Lst, mark)
       /\ SpliceAtMark
          => /\ pc' = "loop"
             /\ mark' = mark + 1
             /\ Len(heap'[ml_lst]) = Len(Lst) + 2
             /\ Len(heap'[ml_lst][mark' + 1]) = 2
             /\ Len(heap'[ml_lst][mark' + 2]) < Len(Cur.tok)
       /\ (pc' = "returned") <=> (pc = "loop" /\ mark = Len(Lst))
       /\ (pc' = "returned") => (result' = to_dict(sd_out) /\ mark' = mark)
       /\ mark' <= Len(heap'[ml_lst])]_vars

\* C7 witness: a parse that returned after two splices
C7_Witness ==
    /\ pc = "returned"
    /\ Len(Lst) = Len(Args) + 4
    /\ mark = Len(Lst)

\* the token is -o followed by a value, o a short flag with a converter
JoinedValued(tok) ==
    Is1char(tok) /\ Len(tok) > 2 /\ ValuedKey(StrKey(CharAt(tok, 1)))

\* the list with the token "-o" \o v at index i replaced by "-o", v
SplitAt(lst, i) ==
    SubSeq(lst, 1, i - 1) \o <<SubSeq(lst[i], 1, 2), StrFrom(lst[i], 2)>>
    \o SubSeq(lst, i + 1, Len(lst))

\* C8 as stated: a list with a token "-o" \o v anywhere in it parses to the
\* same mapping or error as the list with that token replaced by "-o", v.
C8_JoinedEqualsSplit ==
    pc \in {"returned", "raised"} =>
        \A i \in 1..Len(Args) :
            JoinedValued(Args[i])
            => process(arg_descs, SplitAt(Args, i)) = [ret |-> result, exc |-> exc]

\* C8 amended: when the loader reaches "-o" \o v as the token to classify,
\* the parse ends in the same mapping or error as with that token replaced
\* by "-o", v; with the identity converter both store v under o.
C8_JoinedEqualsSplitAtMark ==
    (AtToken /\ JoinedValued(Cur.tok)) =>
        LET s == LoaderState
            t == [s EXCEPT !.lst = SplitAt(s.lst, mark + 1)]
            key == StrKey(CharAt(Cur.tok, 1))
            v == StrFrom(Cur.tok, 2)
            s2 == load_n(s, sd_descs, 2)
            t1 == load_n(t, sd_descs, 1)
        IN /\ load_all(s, sd_descs) = load_all(t, sd_descs)
           /\ sd_descs.d[key].t = "str"
              => /\ s2.exc = NoExc /\ t1.exc = NoExc
                 /\ s2.sd_out.d[key] = StrVal(v)
                 /\ t1.sd_out.d[key] = StrVal(v)

\* C8 witness: a parse that returned o = "x" from the token -ox
C8_Witness ==
    /\ pc = "returned"
    /\ \E i \in 1..Len(Args) : Args[i] = "-ox"
    /\ Len(Lst) = Len(Args) + 2
    /\ result[StrKey("o")] = StrVal("x")

\* the token is a bundle of switches: -c1c2...cn, every ci a switch
SwitchBundle(tok) ==
    Is1char(tok) /\ \A i \in 1..(Len(tok) - 1) : SwitchKey(StrKey(CharAt(tok, i)))

\* the loader state after the bundle at the mark is resolved: n - 1 splices
\* and n switches
AfterBundle(s) == load_n(s, sd_descs, 2 * (Len(Cur.tok) - 1) - 1)

\* what C9 says of the loader apart from the dict: every ci is assigned
\* True, in order, and nothing else; the tokens after the bundle are still to
\* be read and those before it are as they were; the positional counter is
\* as it was
BundleEffect(s, t) ==
    LET n == Len(Cur.tok) - 1
    IN /\ t.exc = NoExc
       /\ t.writes = s.writes
            \o [i \in 1..n |-> [key |-> StrKey(CharAt(Cur.tok, i)), val |-> PyTrue]]
       /\ \A i \in 1..n : t.sd_out.d[StrKey(CharAt(Cur.tok, i))] = PyTrue
       /\ t.cur_positional = s.cur_positional
       /\ SubSeq(t.lst, t.mark + 1, Len(t.lst)) = SubSeq(s.lst, s.mark + 2, Len(s.lst))
       /\ SubSeq(t.lst, 1, s.mark + 1) = SubSeq(s.lst, 1, s.mark + 1)

\* C9 as stated: resolving a bundle of switches sets every ci to True and
\* changes no other key of the accumulator, consumes no token after the
\* bundle and leaves the positional counter alone.
C9_BundleSetsOnlyItsSwitches ==
    (AtToken /\ SwitchBundle(Cur.tok)) =>
        LET s == LoaderState
            t == AfterBundle(s)
            C == {StrKey(CharAt(Cur.tok, i)) : i \in 1..(Len(Cur.tok) - 1)}
        IN /\ BundleEffect(s, t)
           /\ DOMAIN t.sd_out.d = (DOMAIN s.sd_out.d) \cup C
           /\ \A k \in (DOMAIN s.sd_out.d) \ C : t.sd_out.d[k] = s.sd_out.d[k]

\* C9 amended: the same, except that the keys that change are the ci and the
\* names registered as their synonyms, which are set to True with them.
C9_BundleSetsSwitchesAndSynonyms ==
    (AtToken /\ SwitchBundle(Cur.tok)) =>
        LET s == LoaderState
            t == AfterBundle(s)
            C == {StrKey(CharAt(Cur.tok, i)) : i \in 1..(Len(Cur.tok) - 1)}
            CS == C \cup UNION {SynSetOf(sd_out, k) : k \in C}
        IN /\ BundleEffect(s, t)
           /\ DOMAIN t.sd_out.d = (DOMAIN s.sd_out.d) \cup CS
           /\ \A k \in CS : t.sd_out.d[k] = PyTrue
           /\ \A k \in (DOMAIN s.sd_out.d) \ CS : t.sd_out.d[k] = s.sd_out.d[k]

\* C9 witness: the bundle -bab followed by a positional token, parsed
C9_Witness ==
    /\ pc = "returned"
    /\ Args = <<"-bab", "xy">>
    /\ result[StrKey("a")] = PyTrue /\ result[StrKey("b")] = PyTrue
    /\ result[IntKey(1)] = StrVal("xy")
    /\ cur_positional = 2

\* the name is a name of a descriptor with a converter
ValuedName(descs, name) ==
    \E i \in 1..Len(descs) :
        StrKey(name) \in DescKeys(descs[i]) /\ "t" \in DOMAIN descs[i]

\* the positional tokens of a token list, read off the list itself: a token
\* of positional form that is not the value of the valued flag before it
RECURSIVE PositionalTokens(_, _, _)
PositionalTokens(descs, lst, i) ==
    IF i > Len(lst) THEN <<>>
    ELSE LET tok == lst[i]
             valued == {j \in 1..(Len(tok) - 1) : ValuedName(descs, CharAt(tok, j))}
         IN IF IsPositional(tok)
            THEN <<tok>> \o PositionalTokens(descs, lst, i + 1)
            ELSE IF IsNchar(tok) /\ ValuedName(descs, StrFrom(tok, 2))
            THEN PositionalTokens(descs, lst, i + 2)
            ELSE IF Is1char(tok) /\ valued # {}
                    /\ (CHOOSE j \in valued : \A k \in valued : j <= k) = Len(tok) - 1
            THEN PositionalTokens(descs, lst, i + 2)
            ELSE PositionalTokens(descs, lst, i + 1)

\* the assignments to positional keys so far
IntWrites == {i \in 1..Len(writes) : writes[i].key[1] = "int"}

\* C10: the positional counter is 1 plus the number of positional tokens
\* resolved so far, the k-th of them is stored under key k, and a returned
\* mapping holds the k-th positional token of the input under key k, the
\* values of valued flags not counted.
C10_PositionalCounter ==
    /\ cur_positional = 1 + Cardinality(IntWrites)
    /\ \A i \in IntWrites :
          writes[i].key = IntKey(1 + Cardinality({j \in IntWrites : j < i}))
    /\ pc = "returned" =>
          LET P == PositionalTokens(arg_descs, Args, 1)
          IN /\ Len(P) = cur_positional - 1
             /\ \A k \in 1..Len(P) :
                   /\ IntKey(k) \in DOMAIN result
                   /\ result[IntKey(k)]
                        = try_translate(P[k], sd_descs.d[IntKey(k)], IntToStr(k)).val

\* C10 witness: a token of positional form taken as the value of -o is not
\* counted, and the positional token after it is stored under key 1
C10_Witness ==
    /\ pc = "returned"
    /\ Args = <<"-o", "xy", "7">>
    /\ cur_positional = 2
    /\ writes = << [key |-> StrKey("o"), val |-> StrVal("xy")],
                   [key |-> IntKey(1), val |-> StrVal("7")] >>
    /\ result[IntKey(1)] = StrVal("7")

\* the name the loader looks up for the token at the mark, and the name it
\* prints for it: the focus of a -XXX token, the name of a --XXX token, the
\* positional counter for a positional token
LookupKey(tok) ==
    IF Is1char(tok) THEN StrKey(CharAt(tok, 1))
    ELSE IF IsNchar(tok) THEN StrKey(StrFrom(tok, 2))
    ELSE IntKey(cur_positional)

LookupName(tok) ==
    IF Is1char(tok) THEN "-" \o CharAt(tok, 1)
    ELSE IF IsNchar(tok) THEN tok
    ELSE IntToStr(cur_positional)

\* C11: when the token being classified is a short flag, a long flag, the
\* first character of what is left of a bundle, or a positional token whose
\* name or slot has no descriptor, the step raises the unrecognized-argument
\* error, stores nothing and returns no mapping; a raised parse takes no
\* further step.
C11_UnrecognizedRaises ==
    [][/\ pc # "raised"
       /\ (AtToken /\ Cur.tok # "" /\ LookupKey(Cur.tok) \notin DOMAIN sd_descs.d)
          => /\ pc' = "raised"
             /\ exc' = <<"RuntimeError",
                         "Argument " \o LookupName(Cur.tok) \o " not recognized!">>
             /\ sd_out' = sd_out
             /\ writes' = writes
             /\ cur_positional' = cur_positional
       /\ (pc' = "raised") => (result' = EmptyDict)]_vars

\* C11 witness: a character inside a bundle had no descriptor; the switch
\* before it was stored, and the parse raised without a mapping
C11_Witness ==
    /\ pc = "raised"
    /\ exc = <<"RuntimeError", "Argument -o not recognized!">>
    /\ Len(Lst) > Len(Args)
    /\ Len(writes) > 0
    /\ result = EmptyDict

\* the step at the mark hands the raw token param to the converter of argdesc
\* under the printed name: a positional token with a converter for its slot,
\* or a valued flag with a token after it
Translates(param, argdesc, name) ==
    /\ AtToken
    /\ Cur.tok # ""
    /\ LookupKey(Cur.tok) \in DOMAIN sd_descs.d
    /\ argdesc = sd_descs.d[LookupKey(Cur.tok)]
    /\ "t" \in DOMAIN argdesc
    /\ name = LookupName(Cur.tok)
    /\ \/ IsPositional(Cur.tok) /\ param = Cur.tok
       \/ ValuedFlag(Cur.tok) /\ mark + 1 < Len(Lst) /\ param = Lst[mark + 2]

\* C12: when the converter rejects the raw token, the step raises the
\* invalid-value error naming the flag as written (-x, --name or the slot
\* number) and the raw token, and stores nothing.
C12_InvalidValueRaises ==
    [][(AtToken /\ Cur.tok # "" /\ LookupKey(Cur.tok) \in DOMAIN sd_descs.d)
       => LET argdesc == sd_descs.d[LookupKey(Cur.tok)]
              name == LookupName(Cur.tok)
              param == IF IsPositional(Cur.tok) THEN Cur.tok ELSE Lst[mark + 2]
          IN (Translates(param, argdesc, name) /\ ~Convert(argdesc.t, param).ok)
             => /\ pc' = "raised"
                /\ exc' = <<"RuntimeError",
                            "Value given for argument " \o name \o " ('"
                            \o param \o "') could not be understood!">>
                /\ sd_out' = sd_out
                /\ writes' = writes
                /\ result' = EmptyDict]_vars

\* C12 witness: the int converter of --count rejected the token xy
C12_Witness ==
    /\ pc = "raised"
    /\ exc = <<"RuntimeError",
               "Value given for argument --count ('xy') could not be understood!">>
    /\ \A i \in 1..Len(writes) : writes[i].key \notin {StrKey("c"), StrKey("count")}

\* the flag of a name: one dash for a one-character name, two otherwise
Flag(name) == (IF Len(name) = 1 THEN "-" ELSE "--") \o name

\* str(v) of a value
ValStr(v) ==
    IF v[1] = "int" THEN (IF v[2] < 0 THEN "-" \o IntToStr(0 - v[2]) ELSE IntToStr(v[2]))
    ELSE IF v[1] = "str" THEN v[2]
    ELSE IF v[2] THEN "True" ELSE "False"

\* the positional values of a mapping as tokens, in slot order from slot k
RECURSIVE RenderPositional(_, _)
RenderPositional(M, k) ==
    IF IntKey(k) \in DOMAIN M
    THEN <<ValStr(M[IntKey(k)])>> \o RenderPositional(M, k + 1)
    ELSE <<>>

\* the named arguments of a mapping as tokens, from descriptor i: a true
\* switch as its flag, a valued argument as its flag and its value
RECURSIVE RenderNamed(_, _, _)
RenderNamed(descs, M, i) ==
    IF i > Len(descs) THEN <<>>
    ELSE LET desc == descs[i]
             key == FirstName(desc.n)
         IN (IF key[1] = "int" \/ key \notin DOMAIN M THEN <<>>
             ELSE IF "t" \in DOMAIN desc THEN <<Flag(key[2]), ValStr(M[key])>>
             ELSE IF M[key] = PyTrue THEN <<Flag(key[2])>>
             ELSE <<>>)
            \o RenderNamed(descs, M, i + 1)

Render(descs, M) == RenderPositional(M, 1) \o RenderNamed(descs, M, 1)

\* the values a mapping may give to the argument of a descriptor
ValuesOf(desc) ==
    IF "t" \in DOMAIN desc
    THEN (IF desc.t = "int" THEN {IntVal(7)} ELSE {StrVal("xy"), StrVal("-a")})
    ELSE IF desc.n[1] = "int" THEN {StrVal("xy"), StrVal("-a")}
    ELSE {PyTrue, PyFalse}

\* mappings from canonical keys to values over the descriptors from i on
RECURSIVE MappingsFrom(_, _)
MappingsFrom(descs, i) ==
    IF i > Len(descs) THEN {EmptyDict}
    ELSE LET rest == MappingsFrom(descs, i + 1)
         IN rest \cup {DictSet(M, FirstName(descs[i].n), v) :
                          M \in rest, v \in ValuesOf(descs[i])}

\* the output mappings over a descriptor list: the slots filled without gap
OutputMappings(descs) ==
    {M \in MappingsFrom(descs, 1) :
        \A k \in 2..Len(descs) : IntKey(k) \in DOMAIN M => IntKey(k - 1) \in DOMAIN M}

C14_SpliceAtMark ==
    [][/\ SpliceAtMark
          => LET focus == CharAt(Cur.tok, 1)
                 rest == StrFrom(Cur.tok, 2)
                 second == IF ValuedKey(StrKey(focus)) THEN rest ELSE "-" \o rest
                 new == heap'[ml_lst]
                 g1 == get(new, mark')
                 g2 == get(new, g1.mark)
             IN /\ new = SubSeq(Lst, 1, mark + 1) \o <<"-" \o focus, second>>
                         \o SubSeq(Lst, mark + 2, Len(Lst))
                /\ mark' = mark + 1
                /\ g1.ret = Some("-" \o focus)
                /\ g2.ret = Some(second)
                /\ SubSeq(new, g2.mark + 1, Len(new)) = SubSeq(Lst, mark + 2, Len(Lst))
       /\ mark <= Len(heap'[ml_lst])
       /\ SubSeq(heap'[ml_lst], 1, mark) = SubSeq(Lst, 1, mark)]_vars

\* C14 witness: -ox was spliced between a read token and a pending one
C14_Witness ==
    /\ pc = "loop"
    /\ Lst = <<"xy", "-ox", "-o", "x", "7">>
    /\ mark = 2
    /\ Args = <<"xy", "-ox", "7">>

\* the token is a bundle whose characters before the j-th are switches and
\* whose j-th character is a valued flag, j > 1
MixedBundle(tok, j) ==
    /\ Is1char(tok)
    /\ j \in 2..(Len(tok) - 1)
    /\ ValuedKey(StrKey(CharAt(tok, j)))
    /\ \A i \in 1..(j - 1) : SwitchKey(StrKey(CharAt(tok, i)))

\* C15: a bundle of leading switches and then a valued flag o assigns True
\* to every leading switch, in order, and then the converted value of the
\* characters after o, or of the next token when o is last, to o, and
\* nothing else; the characters after o are read as the value only; without
\* a next token the parse fails with the missing-value error, and with a
\* value the converter rejects with the invalid-value error, the switches
\* already assigned.
C15_SwitchesThenValued ==
    AtToken =>
        \A j \in 2..(Len(Cur.tok) - 1) :
            MixedBundle(Cur.tok, j) =>
                LET s == LoaderState
                    n == j - 1
                    o == CharAt(Cur.tok, j)
                    rest == StrFrom(Cur.tok, j + 1)
                    inside == rest # ""
                    hasnext == mark + 1 < Len(Lst)
                    raw == IF inside THEN rest ELSE Lst[mark + 2]
                    conv == Convert(sd_descs.d[StrKey(o)].t, raw)
                    t == load_n(s, sd_descs, IF inside THEN 2 * n + 2 ELSE 2 * n + 1)
                    switches == s.writes
                        \o [i \in 1..n |-> [key |-> StrKey(CharAt(Cur.tok, i)), val |-> PyTrue]]
                IN /\ t.cur_positional = s.cur_positional
                   /\ \A i \in 1..n : t.sd_out.d[StrKey(CharAt(Cur.tok, i))] = PyTrue
                   /\ IF ~inside /\ ~hasnext
                      THEN /\ t.exc = <<"RuntimeError", "Couldn't grab value for -" \o o \o "!">>
                           /\ t.writes = switches
                      ELSE IF ~conv.ok
                      THEN /\ t.exc = <<"RuntimeError", "Value given for argument -" \o o
                                          \o " ('" \o raw \o "') could not be understood!">>
                           /\ t.writes = switches
                      ELSE /\ t.exc = NoExc
                           /\ t.writes = switches \o <<[key |-> StrKey(o), val |-> conv.val]>>
                           /\ t.sd_out.d[StrKey(o)] = conv.val
                           /\ SubSeq(t.lst, t.mark + 1, Len(t.lst))
                              = SubSeq(s.lst, s.mark + (IF inside THEN 2 ELSE 3), Len(s.lst))

\* C15 witness: -aox gave o the characters after it, -bc took the next token
C15_Witness ==
    /\ pc = "returned"
    /\ Args = <<"-aox", "-bc", "7">>
    /\ writes = << [key |-> StrKey("a"), val |-> PyTrue], [key |-> StrKey("o"), val |-> StrVal("x")],
                   [key |-> StrKey("b"), val |-> PyTrue], [key |-> StrKey("c"), val |-> IntVal(7)] >>
    /\ IntKey(1) \notin DOMAIN result

\* the positional form in the words of C16: the empty token included
PositionalForm(tok) ==
    Len(tok) = 1 \/ tok = "" \/ (Len(tok) > 0 /\ CharAt(tok, 0) # "-") \/ tok = "--"

\* the step taken is the one that leaves the loader in state t
StepIs(t) ==
    /\ heap'[ml_lst] = t.lst
    /\ mark' = t.mark
    /\ sd_out' = t.sd_out
    /\ cur_positional' = t.cur_positional
    /\ exc' = t.exc
    /\ writes' = t.writes

\* C16: every token read is of exactly one of the three forms, the empty
\* token of the positional form, and the step taken on it is the step of
\* the handler of its form.
C16_EveryTokenClassified ==
    [][AtToken =>
          LET tok == Cur.tok
              s1 == [LoaderState EXCEPT !.mark = mark + 1]
          IN /\ PositionalForm(tok) \/ Is1char(tok) \/ IsNchar(tok)
             /\ ~(PositionalForm(tok) /\ Is1char(tok))
             /\ ~(PositionalForm(tok) /\ IsNchar(tok))
             /\ ~(Is1char(tok) /\ IsNchar(tok))
             /\ PositionalForm(tok) => StepIs(load_one_positional(s1, sd_descs, tok))
             /\ Is1char(tok) => StepIs(load_one_1char(s1, sd_descs, tok))
             /\ IsNchar(tok) => StepIs(load_one_nchar(s1, sd_descs, tok))]_vars

\* the indices of the assignments made for the argument of a descriptor
WritesFor(desc) == {j \in 1..Len(writes) : writes[j].key \in DescKeys(desc)}

\* the greatest element of a non-empty set of numbers
Last(S) == CHOOSE j \in S : \A k \in S : k <= j

AllOrNone(d, K) ==
    \/ \A k \in K : k \notin DOMAIN d
    \/ /\ \A k \in K : k \in DOMAIN d
       /\ \A k1, k2 \in K : d[k1] = d[k2]

\* the key a token names when it is a flag on its own: -x or --name
FlagKey(tok) == IF Is1char(tok) THEN StrKey(CharAt(tok, 1)) ELSE StrKey(StrFrom(tok, 2))
SingleFlag(tok) == (Is1char(tok) /\ Len(tok) = 2) \/ IsNchar(tok)

\* C18: in every state of a parse the names of a synonym tuple are all
\* absent from the accumulator, and from the returned mapping, or all
\* present with the same value; every name looks up the same descriptor in
\* the registry; and the parse from a flag of one name ends in the same
\* mapping, or fails alike, as from the flag of any other name of the tuple.
C18_SynonymsAgree ==
    \A i \in 1..Len(arg_descs) :
        LET desc == arg_descs[i]
            K == DescKeys(desc)
        IN /\ AllOrNone(sd_out.d, K)
           /\ pc = "returned" => AllOrNone(result, K)
           /\ \A k \in K : k \in DOMAIN sd_descs.d /\ sd_descs.d[k] = desc
           /\ (AtToken /\ SingleFlag(Cur.tok) /\ FlagKey(Cur.tok) \in K) =>
                 \A k \in K :
                    LET s == LoaderState
                        t == [s EXCEPT !.lst[mark + 1] = Flag(k[2])]
                        r1 == load_all(s, sd_descs)
                        r2 == load_all(t, sd_descs)
                    IN r1.ret = r2.ret /\ (r1.exc = NoExc <=> r2.exc = NoExc)

\* C18 witness: the long names of two tuples were supplied and the short
\* names have their values
C18_Witness ==
    /\ pc = "returned"
    /\ Args = <<"--all", "--count", "7">>
    /\ writes = << [key |-> StrKey("all"), val |-> PyTrue], [key |-> StrKey("count"), val |-> IntVal(7)] >>
    /\ result[StrKey("a")] = PyTrue /\ result[StrKey("all")] = PyTrue
    /\ result[StrKey("c")] = IntVal(7) /\ result[StrKey("count")] = IntVal(7)

\* the mark is within the list, and get and get_silently at the mark do what
\* C19 says of read and peek
CursorOK ==
    LET g == get(Lst, mark)
        p == get_silently(Lst, mark)
    IN /\ mark \in 0..Len(Lst)
       /\ mark < Len(Lst) => g.ret = Some(Lst[mark + 1]) /\ g.mark = mark + 1
       /\ mark = Len(Lst) => g.ret = None /\ g.mark = mark
       /\ p = g.ret

\* C19: the mark is always between 0 and the length of the list; get on a
\* list not exhausted returns the token at the mark and moves the mark by 1,
\* on an exhausted list it returns None and leaves the mark; get_silently
\* returns what get would; and a step of the loop moves the mark by its one
\* read, or by a second read for the value of a flag, which leaves the mark
\* when the list is exhausted.
C19_CursorInBounds ==
    [][/\ CursorOK /\ CursorOK'
       /\ AtToken =>
             LET g1 == get(Lst, mark)
                 g2 == get(heap'[ml_lst], g1.mark)
             IN /\ mark' \in {g1.mark, g2.mark}
                /\ mark' - mark \in {1, 2}
                /\ (mark' = mark + 1 /\ exc' = <<"RuntimeError", "Couldn't grab value for "
                                                  \o LookupName(Cur.tok) \o "!">>)
                   => g2.ret = None /\ mark' = Len(heap'[ml_lst])
       /\ ~AtToken => mark' = mark /\ heap' = heap]_vars

\* C19 witness: the read for the value of --count met the exhausted list
\* after two reads that moved the mark
C19_Witness ==
    /\ pc = "raised"
    /\ Args = <<"xy", "--count">>
    /\ mark = 2 /\ Len(Lst) = 2
    /\ exc = <<"RuntimeError", "Couldn't grab value for --count!">>

\* C20: no step of process changes the caller's token list or the
\* descriptor list, whether the parse returns or raises; the list the loader
\* reads and splices is another object than the caller's.
C20_CallerListsUnchanged ==
    [][/\ heap'["argv"] = heap["argv"]
       /\ arg_descs' = arg_descs
       /\ ml_lst # "argv" /\ ml_lst' # "argv"]_vars

\* C20 witness: two bundles were spliced and the parse returned with the
\* caller's list as it was passed
C20_Witness ==
    /\ pc = "returned"
    /\ heap["argv"] = <<"-bab", "-ox">>
    /\ heap["copy"] = <<"-bab", "-b", "-ab", "-a", "-b", "-ox", "-o", "x">>
    /\ arg_descs = MainDescs

====
